---- MODULE Spec2Model ----
(***************************************************************************)
(* State-machine model of zen-txt (src/main.py): a tabbed plain-text       *)
(* editor built on PyQt5.  The module holds five specifications over one   *)
(* set of variables; each one moves only the variables of the component it *)
(* models and leaves the others at their initial values.                   *)
(*                                                                         *)
(*   SpecWidth   CodeEditor.lineNumberAreaWidth as a pure function         *)
(*   SpecGutter  one CodeEditor's gutter synchronisation                   *)
(*   SpecEditor  one CodeEditor's key handling and current-line highlight  *)
(*   SpecWindow  MainWindow: tabs, files, New/Open/Save/Save As/Undo/Close *)
(*   SpecPaint   CodeEditor.lineNumberAreaPaintEvent, one loop step a time *)
(***************************************************************************)
EXTENDS Integers, Sequences, FiniteSets, TLC

VARIABLES
    \* --- lineNumberAreaWidth calls (SpecWidth)
    digitWidth,       \* fontMetrics().horizontalAdvance('9'), fixed per session
    widthLog,         \* the two latest calls: <<[blockCount, digits, width], ...>>
    \* --- gutter of one editor (SpecGutter)
    blockCount,       \* QPlainTextEdit.blockCount()
    viewportMargin,   \* left viewport margin, set by setViewportMargins
    areaWidth,        \* lineNumberArea.width(), set by setGeometry
    shown,            \* the editor widget has been shown (resize events are delivered)
    gutterOp,         \* what updateLineNumberArea last did to the gutter
    \* --- text surface of one editor (SpecEditor)
    text,             \* the document's characters
    position,         \* textCursor().position(), an offset 0..Len(text)
    anchor,           \* textCursor().anchor(); a selection when # position
    readOnly,         \* isReadOnly()
    extraSelections,  \* the list given to setExtraSelections
    keyLog,           \* the latest key event and whether the base class got it
    \* --- main window (SpecWindow)
    tabs,             \* tab_widget's pages: <<[blocks, undo, file_path, label], ...>>
    currentIndex,     \* tab_widget.currentIndex(), from 0; -1 when there is no tab
    files,            \* the file system: path -> the file's characters
    linesep,          \* os.linesep of the platform
    alive,            \* the process has not been ended by an unhandled exception
    lastOp,           \* the latest menu or tab-bar operation and how it ended
    \* --- one lineNumberAreaPaintEvent (SpecPaint)
    layout,           \* the document's blocks: <<[height, visible], ...>>, heights in half pixels
    firstVisible,     \* firstVisibleBlock(), as an index into layout from 1
    firstTop,         \* top of that block's geometry moved by contentOffset(), in half pixels
    rect,             \* event.rect(): [y, height] in pixels
    pc,               \* "start", "loop" or "done"
    block,            \* the loop's block, an index into layout; beyond it: invalid
    block_number,     \* the loop's block_number
    top,              \* the loop's top
    bottom,           \* the loop's bottom
    drawn             \* the drawText calls made: <<[number, top], ...>>

widthVars  == <<digitWidth, widthLog>>
gutterVars == <<blockCount, viewportMargin, areaWidth, shown, gutterOp>>
editorVars == <<text, position, anchor, readOnly, extraSelections, keyLog>>
windowVars == <<tabs, currentIndex, files, linesep, alive, lastOp>>
paintVars == <<layout, firstVisible, firstTop, rect, pc, block, block_number,
               top, bottom, drawn>>
vars == <<widthVars, gutterVars, editorVars, windowVars, paintVars>>

----------------------------------------------------------------------------
(* Bounds of the model *)

MaxBlockCount == 101
MaxDigitWidth == 2
MaxTextLen == 5
MaxTabs == 2
MaxUndo == 1
MaxDocLen == 3
MaxBlocks == 3
MaxHalfHeight == 3
MaxHalfTop == 3
MaxRectY == 4
MaxRectHeight == 2

(* Program constants *)

GutterMargin == 3
DefaultAreaWidth == 100

----------------------------------------------------------------------------
(* CodeEditor.lineNumberAreaWidth, src/main.py:44-51 *)

Max(a, b) == IF a >= b THEN a ELSE b

\* The while loop of lines 47-49: the state is (max_block_count, digits).
RECURSIVE DigitsLoop(_, _)
DigitsLoopOffByOne(max_block_count, digits) ==
    IF max_block_count > 10
    THEN DigitsLoop(max_block_count \div 10, digits + 1)
    ELSE digits
DigitsLoop(max_block_count, digits) ==
    IF max_block_count >= 10
    THEN DigitsLoop(max_block_count \div 10, digits + 1)
    ELSE digits

\* max_block_count as the loop leaves it (the leading decimal digit).
RECURSIVE LoopQuotient(_)
LoopQuotient(max_block_count) ==
    IF max_block_count >= 10
    THEN LoopQuotient(max_block_count \div 10)
    ELSE max_block_count

\* digits after the loop, for blockCount() = n (lines 45-49).
Digits(n) == DigitsLoop(Max(1, n), 1)

\* Line 50 with the loop's two variables mixed up.
lineNumberAreaWidthMixedUp(n, dw) == GutterMargin + dw * LoopQuotient(Max(1, n))
lineNumberAreaWidth(n, dw) == GutterMargin + dw * Digits(n)

----------------------------------------------------------------------------
(* SpecWidth: lineNumberAreaWidth called on arbitrary block counts *)

GutterIdle ==
    /\ blockCount = 1
    /\ viewportMargin = 0
    /\ areaWidth = 0
    /\ shown = FALSE
    /\ gutterOp = "none"

EditorIdle ==
    /\ text = <<>>
    /\ position = 0
    /\ anchor = 0
    /\ readOnly = FALSE
    /\ extraSelections = <<>>
    /\ keyLog = [key |-> "none", forwarded |-> FALSE, serial |-> 0]

WindowIdle ==
    /\ tabs = <<>>
    /\ currentIndex = -1
    /\ files = <<>>
    /\ linesep = <<"\n">>
    /\ alive = TRUE
    /\ lastOp = [op |-> "none"]

PaintIdle ==
    /\ layout = <<>>
    /\ firstVisible = 1
    /\ firstTop = 0
    /\ rect = [y |-> 0, height |-> 1]
    /\ pc = "done"
    /\ block = 1
    /\ block_number = 0
    /\ top = 0
    /\ bottom = 0
    /\ drawn = <<>>

InitWidth ==
    /\ digitWidth \in 1..MaxDigitWidth
    /\ widthLog = <<>>
    /\ GutterIdle
    /\ EditorIdle
    /\ WindowIdle
    /\ PaintIdle

\* One call of lineNumberAreaWidth with blockCount() = n; the log keeps the
\* previous call and this one.
CallLineNumberAreaWidth ==
    \E n \in 0..MaxBlockCount :
        LET call == [blockCount |-> n,
                     digits     |-> Digits(n),
                     width      |-> lineNumberAreaWidth(n, digitWidth)]
        IN  /\ widthLog' = IF widthLog = <<>>
                           THEN <<call>>
                           ELSE <<widthLog[Len(widthLog)], call>>
            /\ UNCHANGED <<digitWidth, gutterVars, editorVars, windowVars, paintVars>>

NextWidth == CallLineNumberAreaWidth

SpecWidth == InitWidth /\ [][NextWidth]_vars

\* len(str(n)) for n >= 1, computed from the decimal expansion bounds:
\* the least d with n < 10^d.
Pow10(d) == IF d = 0 THEN 1 ELSE IF d = 1 THEN 10 ELSE IF d = 2 THEN 100
            ELSE IF d = 3 THEN 1000 ELSE 10000
StrLen(n) == CHOOSE d \in 1..4 : n < Pow10(d) /\ (d > 1 => n >= Pow10(d - 1))

\* C6: the digit count computed for block count N is len(str(N)) for N >= 1
\* and 1 for N = 0, and the width returned is 3 + digit-width * digit count.
C6_DigitCount ==
    \A i \in 1..Len(widthLog) :
        LET c == widthLog[i]
        IN  /\ c.blockCount >= 1 => c.digits = StrLen(c.blockCount)
            /\ c.blockCount = 0 => c.digits = 1
            /\ c.width = 3 + digitWidth * c.digits

C6_Witness ==
    /\ Len(widthLog) = 2
    /\ widthLog[1].blockCount = 0 /\ widthLog[1].digits = 1
    /\ widthLog[2].blockCount = 100 /\ widthLog[2].digits = 3

\* C7: for a fixed digit width, block count m <= n gives
\* lineNumberAreaWidth at m <= lineNumberAreaWidth at n.
C7_Monotone ==
    Len(widthLog) = 2 =>
        /\ widthLog[1].blockCount <= widthLog[2].blockCount
              => widthLog[1].width <= widthLog[2].width
        /\ widthLog[2].blockCount <= widthLog[1].blockCount
              => widthLog[2].width <= widthLog[1].width

C7_Witness ==
    /\ Len(widthLog) = 2
    /\ widthLog[1].blockCount = 9
    /\ widthLog[2].blockCount = 10
    /\ widthLog[1].width < widthLog[2].width

----------------------------------------------------------------------------
(* SpecGutter: one editor's gutter, src/main.py:30-34 and 53-68.            *)
(* The document's edits are abstracted to their effect on blockCount().    *)

\* resizeEvent, lines 65-68: the gutter panel takes the width computed now.
ResizeEventWidth(bc) == lineNumberAreaWidth(bc, digitWidth)

\* QAbstractScrollArea.setViewportMargins as called at line 54: it stores the
\* margin and lays the viewport out again; a viewport whose geometry changed
\* gets a resize event, which a scroll area hands to its own resizeEvent
\* (lines 65-68).  A widget not yet shown gets its resize event when shown.
SetViewportMargins(left, bc) ==
    /\ viewportMargin' = left
    /\ areaWidth' = IF shown /\ left # viewportMargin
                    THEN ResizeEventWidth(bc)
                    ELSE areaWidth

\* updateLineNumberAreaWidth, lines 53-54, with blockCount() = bc.
updateLineNumberAreaWidth(bc) ==
    SetViewportMargins(lineNumberAreaWidth(bc, digitWidth), bc)

\* CodeEditor.__init__, lines 20-35: an empty document has one block; line 34
\* sets the margin; the gutter panel is a new child widget.
InitGutter ==
    /\ digitWidth \in 1..MaxDigitWidth
    /\ widthLog = <<>>
    /\ blockCount = 1
    /\ viewportMargin = lineNumberAreaWidth(1, digitWidth)
    /\ areaWidth = DefaultAreaWidth
    /\ shown = FALSE
    /\ gutterOp = "none"
    /\ EditorIdle
    /\ WindowIdle
    /\ PaintIdle

\* The signal of line 30 left unconnected.
BlockCountChangedUnconnected ==
    \E n \in 1..MaxBlockCount :
        /\ n # blockCount
        /\ blockCount' = n
        /\ UNCHANGED <<viewportMargin, areaWidth, shown, gutterOp, widthVars, editorVars, windowVars, paintVars>>

\* An edit changes the block count: blockCountChanged (line 30) calls
\* updateLineNumberAreaWidth.
BlockCountChanged ==
    \E n \in 1..MaxBlockCount :
        /\ n # blockCount
        /\ blockCount' = n
        /\ updateLineNumberAreaWidth(n)
        /\ UNCHANGED <<shown, gutterOp, widthVars, editorVars, windowVars, paintVars>>

\* updateRequest (line 31) calls updateLineNumberArea(rect, dy), lines 56-63.
\* containsViewport is rect.contains(self.viewport().rect()).
updateLineNumberArea ==
    \E dy \in {-1, 0, 1}, containsViewport \in BOOLEAN :
        /\ gutterOp' = IF dy # 0 THEN "scroll" ELSE "update"
        /\ IF containsViewport
           THEN updateLineNumberAreaWidth(blockCount)
           ELSE UNCHANGED <<viewportMargin, areaWidth>>
        /\ UNCHANGED <<blockCount, shown, widthVars, editorVars, windowVars, paintVars>>

\* The editor is resized by its parent: resizeEvent, lines 65-68.
resizeEvent ==
    /\ shown
    /\ areaWidth' = ResizeEventWidth(blockCount)
    /\ UNCHANGED <<blockCount, viewportMargin, shown, gutterOp, widthVars, editorVars, windowVars, paintVars>>

\* The editor is shown for the first time (addTab / setCurrentIndex, lines
\* 158-159 and 172-173): the pending resize event is delivered.
ShowEditor ==
    /\ ~shown
    /\ shown' = TRUE
    /\ areaWidth' = ResizeEventWidth(blockCount)
    /\ UNCHANGED <<blockCount, viewportMargin, gutterOp, widthVars, editorVars, windowVars, paintVars>>

NextGutter ==
    \/ BlockCountChanged
    \/ updateLineNumberArea
    \/ resizeEvent
    \/ ShowEditor

SpecGutter == InitGutter /\ [][NextGutter]_vars

GutterNeeded == 3 + digitWidth * StrLen(blockCount)

\* C5: after any sequence of block-count changes, update/scroll events and
\* resizes, the viewport's left margin and (once the editor is shown) the
\* gutter panel's width are at least 3 + digit-width * (number of decimal
\* digits of the current block count).
C5_GutterWideEnough ==
    /\ viewportMargin >= GutterNeeded
    /\ shown => areaWidth >= GutterNeeded

C5_Witness ==
    /\ shown
    /\ blockCount = 100
    /\ gutterOp = "scroll"
    /\ viewportMargin = 3 + digitWidth * 3
    /\ areaWidth = 3 + digitWidth * 3

----------------------------------------------------------------------------
(* SpecEditor: one editor's text surface, src/main.py:32-42 and 91-103.     *)
(* Cursor offsets count characters from 0; a selection is the text between  *)
(* anchor and position.                                                     *)

Min(a, b) == IF a <= b THEN a ELSE b
SelStart == Min(position, anchor)
SelEnd == Max(position, anchor)

\* QTextCursor.insertText: the selection, if any, is replaced by ins.
InsertText(t, from, to, ins) == SubSeq(t, 1, from) \o ins \o SubSeq(t, to + 1, Len(t))

FourSpaces == <<" ", " ", " ", " ">>

\* highlightCurrentLine, lines 91-103: the list handed to setExtraSelections
\* for a surface whose cursor is at pos.
highlightCurrentLine(ro, pos) ==
    IF ~ro
    THEN Append(<<>>, [position |-> pos])
    ELSE <<>>

Keys == {"Tab", "A", "Backspace", "Left", "Right", "ShiftLeft"}

NextSerial == 1 - keyLog.serial

\* QPlainTextEdit.keyPressEvent, reached by line 42.  A read-only surface
\* ignores editing and cursor keys.  cursorPositionChanged (line 32) runs
\* highlightCurrentLine whenever the cursor's position changes.
BaseKeyPress(key) ==
    LET edit(t, p) ==
            /\ text' = t
            /\ position' = p
            /\ anchor' = p
            /\ extraSelections' = IF p # position \/ t # text
                                  THEN highlightCurrentLine(readOnly, p)
                                  ELSE extraSelections
        move(p, a) ==
            /\ text' = text
            /\ position' = p
            /\ anchor' = a
            /\ extraSelections' = IF p # position
                                  THEN highlightCurrentLine(readOnly, p)
                                  ELSE extraSelections
    IN  IF readOnly
        THEN UNCHANGED <<text, position, anchor, extraSelections>>
        ELSE CASE key = "Tab" ->
                    edit(InsertText(text, SelStart, SelEnd, <<"\t">>), SelStart + 1)
               [] key = "A" ->
                    edit(InsertText(text, SelStart, SelEnd, <<"a">>), SelStart + 1)
               [] key = "Backspace" ->
                    IF SelStart # SelEnd
                    THEN edit(InsertText(text, SelStart, SelEnd, <<>>), SelStart)
                    ELSE IF position > 0
                    THEN edit(InsertText(text, position - 1, position, <<>>), position - 1)
                    ELSE edit(text, position)
               [] key = "Left" ->
                    move(Max(0, position - 1), Max(0, position - 1))
               [] key = "Right" ->
                    move(Min(Len(text), position + 1), Min(Len(text), position + 1))
               [] key = "ShiftLeft" ->
                    move(Max(0, position - 1), anchor)

\* keyPressEvent without lines 38-41: every key goes to the base class.
keyPressEventAllForwarded(key) ==
    /\ keyLog' = [key |-> key, forwarded |-> TRUE, serial |-> NextSerial]
    /\ BaseKeyPress(key)
    /\ UNCHANGED readOnly

\* CodeEditor.keyPressEvent, lines 37-42.
keyPressEvent(key) ==
    /\ IF key = "Tab"
       THEN /\ text' = InsertText(text, SelStart, SelEnd, FourSpaces)
            /\ position' = SelStart + 4
            /\ anchor' = SelStart + 4
            /\ extraSelections' = highlightCurrentLine(readOnly, SelStart + 4)
            /\ keyLog' = [key |-> key, forwarded |-> FALSE, serial |-> NextSerial]
       ELSE /\ keyLog' = [key |-> key, forwarded |-> TRUE, serial |-> NextSerial]
            /\ BaseKeyPress(key)
    /\ UNCHANGED readOnly

\* CodeEditor.__init__, lines 20-35: empty document, cursor at 0, editable;
\* line 35 sets the first highlight.
InitEditor ==
    /\ digitWidth = 1
    /\ widthLog = <<>>
    /\ GutterIdle
    /\ text = <<>>
    /\ position = 0
    /\ anchor = 0
    /\ readOnly = FALSE
    /\ extraSelections = highlightCurrentLine(FALSE, 0)
    /\ keyLog = [key |-> "none", forwarded |-> FALSE, serial |-> 0]
    /\ WindowIdle
    /\ PaintIdle

\* A key press reaches the editor.  The guard keeps the document within the
\* model's bound.
KeyPress ==
    \E key \in Keys :
        /\ key = "Tab" => Len(text) - (SelEnd - SelStart) + 4 <= MaxTextLen
        /\ key = "A" => Len(text) - (SelEnd - SelStart) + 1 <= MaxTextLen
        /\ keyPressEvent(key)
        /\ UNCHANGED <<widthVars, gutterVars, windowVars, paintVars>>

\* A mouse press puts the cursor at offset p (also on a read-only surface,
\* whose text stays selectable by mouse); line 32 runs highlightCurrentLine
\* when the position changed.
MousePress ==
    \E p \in 0..Len(text) :
        /\ position' = p
        /\ anchor' = p
        /\ extraSelections' = IF p # position
                              THEN highlightCurrentLine(readOnly, p)
                              ELSE extraSelections
        /\ UNCHANGED <<text, readOnly, keyLog, widthVars, gutterVars, windowVars, paintVars>>

\* QPlainTextEdit.setReadOnly, the setter of the property line 94 reads.  It
\* emits no cursorPositionChanged, so nothing of lines 91-103 runs.
SetReadOnly ==
    \E ro \in BOOLEAN :
        /\ ro # readOnly
        /\ readOnly' = ro
        /\ UNCHANGED <<text, position, anchor, extraSelections, keyLog,
                       widthVars, gutterVars, windowVars, paintVars>>

NextEditor ==
    \/ KeyPress
    \/ MousePress
    \/ SetReadOnly

SpecEditor == InitEditor /\ [][NextEditor]_vars

\* C3: every Tab key press inserts exactly 4 spaces at the cursor position
\* (in place of the selection, if there is one) and never a tab character,
\* whatever the buffer, the cursor position and the read-only flag, and is
\* not forwarded to the base handler; every other key is forwarded unchanged.
C3_TabInsertsFourSpaces ==
    [][keyLog'.serial # keyLog.serial =>
          IF keyLog'.key = "Tab"
          THEN /\ ~keyLog'.forwarded
               /\ Len(text') = Len(text) - (SelEnd - SelStart) + 4
               /\ \A i \in 1..SelStart : text'[i] = text[i]
               /\ \A i \in 1..4 : text'[SelStart + i] = " "
               /\ \A i \in (SelStart + 5)..Len(text') :
                      text'[i] = text[i - 4 + (SelEnd - SelStart)]
               /\ \A i \in 1..Len(text') : text'[i] # "\t"
               /\ position' = SelStart + 4
          ELSE /\ keyLog'.forwarded
               /\ keyLog'.key \in Keys \ {"Tab"}]_vars

C3_Witness ==
    /\ keyLog.key = "Tab"
    /\ ~keyLog.forwarded
    /\ text = <<"a", " ", " ", " ", " ">>
    /\ position = 5

C4_AtMostOneHighlight == Len(extraSelections) <= 1

----------------------------------------------------------------------------
(* SpecWindow: MainWindow, src/main.py:105-202, over a small file system.   *)

\* The contents a file starts with: one line without a line end, a line
\* ended the Unix way, a line ended the DOS way.
Contents == {<<"a">>, <<"a", "\n">>, <<"a", "\r", "\n">>}

\* A path is its sequence of components; <<>> stands for the values the code
\* tests as false: None (line 23) and the "" a cancelled dialog returns.
Paths == {<<"docs", "a.txt">>}
NoPath == <<>>

\* os.path.basename, lines 171 and 189.
Basename(path) == path[Len(path)]

\* file.read() of a file opened with open(path, 'r'), lines 164-165: text
\* mode with universal newlines turns "\r\n" and a lone "\r" into "\n".
RECURSIVE ReadText(_)
ReadText(s) ==
    IF s = <<>> THEN <<>>
    ELSE IF Head(s) = "\r"
         THEN IF Len(s) >= 2 /\ s[2] = "\n"
              THEN <<"\n">> \o ReadText(SubSeq(s, 3, Len(s)))
              ELSE <<"\n">> \o ReadText(Tail(s))
         ELSE <<Head(s)>> \o ReadText(Tail(s))

\* file.write(t) to a file opened with open(path, 'w'), lines 194-195: text
\* mode writes os.linesep for every "\n".
RECURSIVE WriteText(_, _)
WriteText(t, sep) ==
    IF t = <<>> THEN <<>>
    ELSE IF Head(t) = "\n"
         THEN sep \o WriteText(Tail(t), sep)
         ELSE <<Head(t)>> \o WriteText(Tail(t), sep)

\* setPlainText, line 168: the document's blocks are the pieces of the text
\* between "\n".
RECURSIVE SplitBlocks(_, _)
SplitBlocks(t, line) ==
    IF t = <<>> THEN <<line>>
    ELSE IF Head(t) = "\n"
         THEN <<line>> \o SplitBlocks(Tail(t), <<>>)
         ELSE SplitBlocks(Tail(t), Append(line, Head(t)))
setPlainText(t) == SplitBlocks(t, <<>>)

\* toPlainText, line 195: the blocks joined by "\n".
RECURSIVE toPlainText(_)
toPlainText(blocks) ==
    IF Len(blocks) = 1 THEN blocks[1]
    ELSE blocks[1] \o <<"\n">> \o toPlainText(Tail(blocks))

\* CodeEditor(), lines 20-23: an empty document (one empty block), nothing
\* to undo, no file path; as a page of the tab widget it carries its label.
Page(blocks, file_path, label) ==
    [blocks |-> blocks, undo |-> <<>>, file_path |-> file_path, label |-> label]

\* QTabWidget pages are numbered from 0.
TabAt(ts, index) == ts[index + 1]
HasCurrent == currentIndex # -1
currentWidget == TabAt(tabs, currentIndex)

Op(op, path, index, io, outcome) ==
    [op |-> op, path |-> path, index |-> index, io |-> io, outcome |-> outcome]

\* An exception leaves the slot: PyQt5 from 5.5 on ends the process, older
\* versions print the traceback and go on.
Unhandled(op, path, io, exception) ==
    /\ lastOp' = Op(op, path, -1, io, exception)
    /\ alive' \in BOOLEAN

\* QTabWidget.removeTab: the page at index goes; the current index follows
\* the page that was current, or moves to the page to the right of a removed
\* current page (the last page when there is none to the right).
RemoveAt(ts, index) == SubSeq(ts, 1, index) \o SubSeq(ts, index + 2, Len(ts))
IndexAfterRemove(cur, index, newCount) ==
    IF index < cur THEN cur - 1
    ELSE IF index > cur THEN cur
    ELSE IF newCount = 0 THEN -1
    ELSE IF index >= newCount THEN newCount - 1
    ELSE index

\* close_tab ignoring its argument.
close_tabCurrent(index) ==
    /\ tabs' = RemoveAt(tabs, currentIndex)
    /\ currentIndex' = IndexAfterRemove(currentIndex, currentIndex, Len(tabs) - 1)
    /\ lastOp' = Op("close_tab", NoPath, index, "none", "ok")
    /\ UNCHANGED <<files, alive>>

\* close_tab, lines 201-202.
close_tab(index) ==
    /\ tabs' = RemoveAt(tabs, index)
    /\ currentIndex' = IndexAfterRemove(currentIndex, index, Len(tabs) - 1)
    /\ lastOp' = Op("close_tab", NoPath, index, "none", "ok")
    /\ UNCHANGED <<files, alive>>

\* new_file, lines 156-159.
new_file ==
    /\ tabs' = Append(tabs, Page(<<<<>>>>, NoPath, "Untitled"))
    /\ currentIndex' = Len(tabs)
    /\ lastOp' = Op("new_file", NoPath, Len(tabs), "none", "ok")
    /\ UNCHANGED <<files, alive>>

\* open_file with the failure of line 164 caught and an empty tab opened.
open_fileSwallowing(path, io) ==
    IF path = NoPath
    THEN /\ lastOp' = Op("open_file", NoPath, -1, "none", "cancelled")
         /\ UNCHANGED <<tabs, currentIndex, files, alive>>
    ELSE /\ tabs' = Append(tabs, Page(IF io = "ok"
                                      THEN setPlainText(ReadText(files[path]))
                                      ELSE <<<<>>>>,
                                      path, Basename(path)))
         /\ currentIndex' = Len(tabs)
         /\ lastOp' = Op("open_file", path, Len(tabs), io, "ok")
         /\ UNCHANGED <<files, alive>>

\* open_file, lines 161-173; path is what the dialog returned and io how the
\* open and the read of lines 164-165 went.
open_file(path, io) ==
    IF path = NoPath
    THEN /\ lastOp' = Op("open_file", NoPath, -1, "none", "cancelled")
         /\ UNCHANGED <<tabs, currentIndex, files, alive>>
    ELSE IF io # "ok"
    THEN /\ Unhandled("open_file", path, io, "OSError")
         /\ UNCHANGED <<tabs, currentIndex, files>>
    ELSE /\ tabs' = Append(tabs, Page(setPlainText(ReadText(files[path])),
                                      path, Basename(path)))
         /\ currentIndex' = Len(tabs)
         /\ lastOp' = Op("open_file", path, Len(tabs), io, "ok")
         /\ UNCHANGED <<files, alive>>

\* _save_to_path, lines 192-195, followed by `after`, the caller's next
\* statements; ts is the tab list as the caller left it.  A failed open
\* leaves the file alone, a failed write leaves it truncated.
SaveToPath(op, ts, path, io, after) ==
    IF io = "ok"
    THEN /\ files' = [files EXCEPT ![path] =
                         WriteText(toPlainText(TabAt(ts, currentIndex).blocks), linesep)]
         /\ tabs' = after
         /\ lastOp' = Op(op, path, currentIndex, io, "ok")
         /\ UNCHANGED <<currentIndex, alive>>
    ELSE /\ files' = IF io = "write_fails"
                     THEN [files EXCEPT ![path] = <<>>]
                     ELSE files
         /\ tabs' = ts
         /\ Unhandled(op, path, io, "OSError")
         /\ UNCHANGED currentIndex

SetPath(ts, path) == [ts EXCEPT ![currentIndex + 1].file_path = path]
SetLabel(ts, label) == [ts EXCEPT ![currentIndex + 1].label = label]

\* save_file_as, lines 182-190; path is what the dialog returned.
save_file_as(op, path, io) ==
    IF path = NoPath
    THEN /\ lastOp' = Op(op, NoPath, -1, "none", "cancelled")
         /\ UNCHANGED <<tabs, currentIndex, files, alive>>
    ELSE IF ~HasCurrent
    THEN /\ Unhandled(op, path, "none", "AttributeError")
         /\ UNCHANGED <<tabs, currentIndex, files>>
    ELSE SaveToPath(op, SetPath(tabs, path), path, io,
                    SetLabel(SetPath(tabs, path), Basename(path)))

\* save_file, lines 175-180.
save_file(path, io) ==
    IF ~HasCurrent
    THEN /\ Unhandled("save_file", NoPath, "none", "AttributeError")
         /\ UNCHANGED <<tabs, currentIndex, files>>
    ELSE IF currentWidget.file_path # NoPath
    THEN SaveToPath("save_file", tabs, currentWidget.file_path, io, tabs)
    ELSE save_file_as("save_file>save_file_as", path, io)

\* undo, lines 197-199; QPlainTextEdit.undo does nothing without history.
undo ==
    IF ~HasCurrent
    THEN /\ Unhandled("undo", NoPath, "none", "AttributeError")
         /\ UNCHANGED <<tabs, currentIndex, files>>
    ELSE /\ tabs' = IF currentWidget.undo = <<>>
                    THEN tabs
                    ELSE [tabs EXCEPT ![currentIndex + 1].blocks = Head(currentWidget.undo),
                                      ![currentIndex + 1].undo = Tail(currentWidget.undo)]
         /\ lastOp' = Op("undo", NoPath, currentIndex, "none", "ok")
         /\ UNCHANGED <<currentIndex, files, alive>>

IoResults == {"ok", "open_fails", "transfer_fails"}
NotWindow == <<widthVars, gutterVars, editorVars, paintVars>>

\* The characters of a document, its block separators included.
DocLen(blocks) == Len(toPlainText(blocks))

\* MainWindow.__init__ and initUI, lines 106-122: the window opens with one
\* untitled tab (line 122), which is current.  The files hold any content.
InitWindow ==
    /\ digitWidth = 1
    /\ widthLog = <<>>
    /\ GutterIdle
    /\ EditorIdle
    /\ PaintIdle
    /\ tabs = <<Page(<<<<>>>>, NoPath, "Untitled")>>
    /\ currentIndex = 0
    /\ files \in [Paths -> Contents]
    /\ linesep \in {<<"\n">>, <<"\r", "\n">>}
    /\ alive = TRUE
    /\ lastOp = [op |-> "initUI", path |-> NoPath, index |-> 0, io |-> "none",
                 outcome |-> "ok"]

\* File > New (line 127).
NewFile ==
    /\ alive
    /\ Len(tabs) < MaxTabs
    /\ new_file
    /\ UNCHANGED <<linesep, NotWindow>>

\* File > Open (line 131).
OpenFile ==
    /\ alive
    /\ Len(tabs) < MaxTabs
    /\ \E path \in Paths \cup {NoPath}, io \in IoResults :
           /\ io = "transfer_fails" => path # NoPath
           /\ open_file(path, IF io = "transfer_fails" THEN "read_fails" ELSE io)
    /\ UNCHANGED <<linesep, NotWindow>>

\* File > Save (line 135).
SaveFile ==
    /\ alive
    /\ \E path \in Paths \cup {NoPath}, io \in IoResults :
           save_file(path, IF io = "transfer_fails" THEN "write_fails" ELSE io)
    /\ UNCHANGED <<linesep, NotWindow>>

\* File > Save As (line 138).
SaveFileAs ==
    /\ alive
    /\ \E path \in Paths \cup {NoPath}, io \in IoResults :
           save_file_as("save_file_as", path,
                        IF io = "transfer_fails" THEN "write_fails" ELSE io)
    /\ UNCHANGED <<linesep, NotWindow>>

\* Edit > Undo (line 142).
Undo ==
    /\ alive
    /\ undo
    /\ UNCHANGED <<linesep, NotWindow>>

\* The close button of a tab (line 117): tabCloseRequested carries the index
\* of an existing page.
CloseTab ==
    /\ alive
    /\ \E index \in 0..(Len(tabs) - 1) : close_tab(index)
    /\ UNCHANGED <<linesep, NotWindow>>

\* The user types a letter at the end of the current editor's document; the
\* document keeps the previous text for undo.
TypeChar ==
    /\ alive
    /\ HasCurrent
    /\ Len(currentWidget.undo) < MaxUndo
    /\ DocLen(currentWidget.blocks) < MaxDocLen
    /\ LET b == currentWidget.blocks
       IN  tabs' = [tabs EXCEPT
                       ![currentIndex + 1].blocks =
                           [b EXCEPT ![Len(b)] = Append(b[Len(b)], "a")],
                       ![currentIndex + 1].undo = <<b>> \o currentWidget.undo]
    /\ lastOp' = Op("type", NoPath, currentIndex, "none", "ok")
    /\ UNCHANGED <<currentIndex, files, alive, linesep, NotWindow>>

NextWindow ==
    \/ NewFile
    \/ OpenFile
    \/ SaveFile
    \/ SaveFileAs
    \/ Undo
    \/ CloseTab
    \/ TypeChar

SpecWindow == InitWindow /\ [][NextWindow]_vars


\* C1: when open_file has read a file into a new current tab and save_file
\* runs next, with no edit in between, the file at that path holds the bytes
\* it held before, and save_file asked for no path.
C1_OpenSaveRoundTrip ==
    [][(/\ lastOp.op = "open_file" /\ lastOp.outcome = "ok"
        /\ lastOp'.op \in {"save_file", "save_file>save_file_as"}
        /\ lastOp'.outcome = "ok")
       => /\ lastOp'.op = "save_file"
          /\ lastOp'.path = lastOp.path
          /\ files'[lastOp.path] = files[lastOp.path]]_vars

C8_ExactlyOneCurrent ==
    /\ Len(tabs) >= 1
    /\ currentIndex \in 0..(Len(tabs) - 1)

\* What the code keeps of C8: the current index names a tab whenever there
\* is one.
C8_CurrentWheneverNonEmpty ==
    IF tabs = <<>> THEN currentIndex = -1 ELSE currentIndex \in 0..(Len(tabs) - 1)

\* C9: a failed read in Open or a failed write in Save / Save As leaves the
\* slot as an unhandled exception; a failed Open adds no tab and leaves the
\* tab collection and the current tab as they were; a failed Save or Save As
\* changes no tab's label.
C9_IoFailurePropagates ==
    [][lastOp'.io \notin {"none", "ok"}
       => /\ lastOp'.outcome = "OSError"
          /\ currentIndex' = currentIndex
          /\ Len(tabs') = Len(tabs)
          /\ \A i \in 1..Len(tabs) : tabs'[i].label = tabs[i].label
          /\ lastOp'.op = "open_file" => tabs' = tabs]_vars

\* A Save As of an untitled tab to a.txt failed while writing.
C9_Witness ==
    /\ lastOp.op = "save_file_as"
    /\ lastOp.io = "write_fails"
    /\ lastOp.outcome = "OSError"
    /\ lastOp.path = <<"docs", "a.txt">>
    /\ tabs[currentIndex + 1].label = "Untitled"
    /\ tabs[currentIndex + 1].file_path = <<"docs", "a.txt">>

----------------------------------------------------------------------------
(* SpecPaint: one call of lineNumberAreaPaintEvent, src/main.py:70-89, a     *)
(* loop iteration per step.  Geometry comes from the toolkit as floats; the *)
(* model gives it in half pixels and the code's int() truncates.            *)

\* int(x) of a float given in half pixels: truncation towards zero.
IntOf(halves) == IF halves >= 0 THEN halves \div 2 ELSE -((-halves) \div 2)

\* QRect.top() and QRect.bottom(): the first and the last pixel row.
RectTop(r) == r.y
RectBottom(r) == r.y + r.height - 1

\* block.isValid(), block.isVisible(), blockBoundingRect(block).height();
\* an invalid block has an empty bounding rectangle.
IsValid(b) == b \in 1..Len(layout)
IsVisible(b) == IsValid(b) /\ layout[b].visible
HalfHeight(b) == IF IsValid(b) THEN layout[b].height ELSE 0

\* A block is visible with a height of at least one pixel, or hidden with
\* no height.
BlockKinds ==
    [height : 2..MaxHalfHeight, visible : {TRUE}] \cup {[height |-> 0, visible |-> FALSE]}

\* The inputs of one paint event: a document, its first visible block and
\* where the viewport puts it (it reaches into the viewport, which starts at
\* row 0), and the rectangle to repaint.
InitPaint ==
    /\ digitWidth = 1
    /\ widthLog = <<>>
    /\ GutterIdle
    /\ EditorIdle
    /\ WindowIdle
    /\ layout \in UNION {[1..n -> BlockKinds] : n \in 1..MaxBlocks}
    /\ firstVisible \in {b \in 1..Len(layout) : layout[b].visible}
    /\ firstTop \in (-MaxHalfTop)..MaxHalfTop
    /\ firstTop + layout[firstVisible].height > 0
    /\ rect \in [y : 0..MaxRectY, height : 1..MaxRectHeight]
    /\ pc = "start"
    /\ block = 1
    /\ block_number = 0
    /\ top = 0
    /\ bottom = 0
    /\ drawn = <<>>

NotPaint == <<widthVars, gutterVars, editorVars, windowVars>>
PaintInputs == <<layout, firstVisible, firstTop, rect>>

\* Lines 71-77.
PaintStart ==
    /\ pc = "start"
    /\ block' = firstVisible
    /\ block_number' = firstVisible - 1
    /\ top' = IntOf(firstTop)
    /\ bottom' = IntOf(firstTop) + IntOf(HalfHeight(firstVisible))
    /\ pc' = "loop"
    /\ UNCHANGED <<drawn, PaintInputs, NotPaint>>

\* Line 80 testing top against the rectangle's top.
DrawsBlockByTop(b, t, bot) == IsVisible(b) /\ t >= RectTop(rect)
\* Line 80.
DrawsBlock(b, t, bot) == IsVisible(b) /\ bot >= RectTop(rect)

\* One pass through the loop body, lines 79-89.
PaintLoopStep ==
    /\ pc = "loop"
    /\ IsValid(block) /\ top <= RectBottom(rect)
    /\ drawn' = IF DrawsBlock(block, top, bottom)
                THEN Append(drawn, [number |-> block_number + 1, top |-> top])
                ELSE drawn
    /\ block' = block + 1
    /\ top' = bottom
    /\ bottom' = bottom + IntOf(HalfHeight(block + 1))
    /\ block_number' = block_number + 1
    /\ UNCHANGED <<pc, PaintInputs, NotPaint>>

\* The loop condition of line 79 fails: the handler returns.
PaintExit ==
    /\ pc = "loop"
    /\ ~(IsValid(block) /\ top <= RectBottom(rect))
    /\ pc' = "done"
    /\ UNCHANGED <<block, block_number, top, bottom, drawn, PaintInputs, NotPaint>>

NextPaint ==
    \/ PaintStart
    \/ PaintLoopStep
    \/ PaintExit

SpecPaint == InitPaint /\ [][NextPaint]_vars

\* The gutter's geometry: block b's top is the previous block's
\* bottom, from the first visible block on, in whole pixels.
RECURSIVE TopOf(_)
TopOf(b) ==
    IF b <= firstVisible THEN IntOf(firstTop)
    ELSE TopOf(b - 1) + IntOf(HalfHeight(b - 1))
PixelHeight(b) == IntOf(HalfHeight(b))

\* The numbers a paint event is to draw: those of the blocks from the first
\* visible one on that satisfy Wanted, in document order.
BlocksFromFirstVisible ==
    [i \in 1..(Len(layout) - firstVisible + 1) |-> firstVisible + i - 1]
NumbersOf(chosen) ==
    [i \in 1..Len(chosen) |-> [number |-> chosen[i], top |-> TopOf(chosen[i])]]

\* Block b has a pixel row in common with the rectangle.
Intersects(b) ==
    /\ layout[b].visible
    /\ TopOf(b) <= RectBottom(rect)
    /\ TopOf(b) + PixelHeight(b) - 1 >= RectTop(rect)

\* Block b has a pixel row in common with the rectangle or ends on the row
\* just above it.
IntersectsOrTouches(b) ==
    /\ layout[b].visible
    /\ TopOf(b) <= RectBottom(rect)
    /\ TopOf(b) + PixelHeight(b) >= RectTop(rect)

StrictlyIncreasing(d) == \A i \in 1..(Len(d) - 1) : d[i].number < d[i + 1].number

Terminates ==
    /\ pc = "done" \/ ENABLED NextPaint
    /\ block \in 1..(Len(layout) + 1)

\* C10 as stated: the paint event terminates and draws exactly the 1-based
\* numbers of the visible blocks whose vertical extent intersects the
\* rectangle, each at its block's top, none for a block entirely outside the
\* rectangle, in strictly increasing order.
C10_DrawsIntersectingBlocks ==
    /\ Terminates
    /\ pc = "done" =>
          /\ drawn = NumbersOf(SelectSeq(BlocksFromFirstVisible, Intersects))
          /\ StrictlyIncreasing(drawn)

\* C10 amended: the same, with a number drawn also for a visible block that
\* ends exactly at the rectangle's top edge (top + height = rect.top()).
C10_DrawsIntersectingOrTouchingBlocks ==
    /\ Terminates
    /\ pc = "done" =>
          /\ drawn = NumbersOf(SelectSeq(BlocksFromFirstVisible, IntersectsOrTouches))
          /\ StrictlyIncreasing(drawn)

\* Three blocks of different heights, the middle one hidden, the first one
\* scrolled partly out: numbers 1 and 3 are drawn.
C10_Witness ==
    /\ pc = "done"
    /\ Len(layout) = 3
    /\ layout[1].height # layout[3].height
    /\ ~layout[2].visible
    /\ firstTop < 0
    /\ Len(drawn) = 2
    /\ drawn[1].number = 1
    /\ drawn[2].number = 3

====
